---- MODULE Spec2Model ----
(***************************************************************************)
(* setup-smt: provisioning of SMT solver binaries (CVC5, Z3, CVC4,         *)
(* Princess) onto the runner's search path through the runner's tool       *)
(* cache.  The model follows the TypeScript source: the module-level       *)
(* platform constant, the per-tool descriptor tables built in run(), the   *)
(* Z3 suffix lookups, and download() with one step per awaited call.       *)
(***************************************************************************)
EXTENDS Naturals, Sequences, FiniteSets

VARIABLES
  RUNNER_OS,      \* env.RUNNER_OS: undefined, or a string (as its characters)
  platform,       \* the module-level constant `platform`
  inputs,         \* core.getInput(name) for the four version inputs
  cache,          \* the tool cache: the set of (tool, version, arch) keys stored
  PATH,           \* directories added by core.addPath in the current process
  calls,          \* the collaborator calls of the current process, in order
  installs,       \* per tool, the download() calls that reached core.addPath, over all jobs
  runs,           \* number of jobs started so far
  pc,             \* position of the current process
  i,              \* index in RunOrder of the download() call in progress
  info,           \* download(): local `info`
  toolPath,       \* download(): local `toolPath`
  downloadPath,   \* download(): local `downloadPath`
  extractedPath   \* download(): local `extractedPath`

vars == <<RUNNER_OS, platform, inputs, cache, PATH, calls, installs, runs, pc, i,
          info, toolPath, downloadPath, extractedPath>>

\* Number of jobs (processes) that run one after the other on the same tool cache.
MaxRuns == 2

-----------------------------------------------------------------------------
(* Values *)

\* JavaScript's undefined, for an unset environment variable and an absent descriptor.
Undefined == [undefined |-> TRUE]

\* A string given by its characters, so that toLowerCase works on it.
Str(chars) == [chars |-> chars]

UpperCase == <<"A","B","C","D","E","F","G","H","I","J","K","L","M",
               "N","O","P","Q","R","S","T","U","V","W","X","Y","Z">>
LowerCase == <<"a","b","c","d","e","f","g","h","i","j","k","l","m",
               "n","o","p","q","r","s","t","u","v","w","x","y","z">>

\* String.prototype.toLowerCase on one character.
ToLowerChar(c) ==
  IF \E k \in 1..Len(UpperCase) : UpperCase[k] = c
  THEN LowerCase[CHOOSE k \in 1..Len(UpperCase) : UpperCase[k] = c]
  ELSE c

\* String.prototype.toLowerCase.
ToLowerCase(chars) == [k \in 1..Len(chars) |-> ToLowerChar(chars[k])]

\* The string made of the characters.
RECURSIVE Join(_)
Join(chars) == IF chars = <<>> THEN "" ELSE Head(chars) \o Join(Tail(chars))

\* Values of RUNNER_OS: the three the runner documents, unset, empty, and others.
RunnerOsValues ==
  { Undefined,
    Str(<<>>),
    Str(<<"L","i","n","u","x">>),
    Str(<<"W","i","n","d","o","w","s">>),
    Str(<<"m","a","c","O","S">>),
    Str(<<"F","r","e","e","B","S","D">>) }

\* const platform = (env.RUNNER_OS?.toLowerCase() || 'linux') as Platform
PlatformOf(os) ==
  IF os = Undefined THEN "linux"
  ELSE IF ToLowerCase(os.chars) = <<>> THEN "linux"
  ELSE Join(ToLowerCase(os.chars))

\* type Platform = 'linux' | 'windows' | 'macos'
Platform == {"linux", "windows", "macos"}

-----------------------------------------------------------------------------
(* Artifact descriptors *)

\* findZ3LinuxGLIBC with the suffix of the listed versions as its default.
findZ3LinuxGLIBC_ListedDefault(version) == "2.35"

\* function findZ3LinuxGLIBC(version)
findZ3LinuxGLIBC(version) ==
  CASE version \in {"4.13.4", "4.13.3", "4.13.2", "4.13.0", "4.14.1"} -> "2.35"
    [] version = "4.14.0" -> "2.35"
    [] OTHER -> "2.39"

\* function findZ3MacOSSuffix(version)
findZ3MacOSSuffix(version) ==
  CASE version = "4.13.4" -> "13.7.1"
    [] version = "4.13.3" -> "13.7"
    [] version = "4.13.2" -> "12.7.6"
    [] version = "4.13.0" -> "11.7.10"
    [] version = "4.14.1" -> "13.7.4"
    [] version = "4.14.0" -> "13.7.2"
    [] version = "4.15.0" -> "13.7.5"
    [] version \in {"4.15.4", "4.15.3", "4.15.1"} -> "13.7.6"
    [] OTHER -> "13.7.6"

\* interface Tool
Tool(url, format, binPath) == [url |-> url, format |-> format, binPath |-> binPath]

CVC5_TOOL(cvc5Version) ==
  [ linux |-> Tool("https://github.com/cvc5/cvc5/releases/download/cvc5-" \o cvc5Version
                     \o "/cvc5-Linux-x86_64-static.zip",
                   "zip", "cvc5-Linux-x86_64-static/bin/"),
    windows |-> Tool("https://github.com/cvc5/cvc5/releases/download/cvc5-" \o cvc5Version
                       \o "/cvc5-Win64-x86_64-static.zip",
                     "zip", "cvc5-Win64-x86_64-static/bin/"),
    macos |-> Tool("https://github.com/cvc5/cvc5/releases/download/cvc5-" \o cvc5Version
                     \o "/cvc5-macOS-x86_64-static.zip",
                   "zip", "cvc5-macOS-x86_64-static/bin/") ]

\* Z3_TOOL with the suffixes fixed in the text: glibc-2.35, osx-13.7.2 in the URL
\* and -osx in the binary subpath.
Z3_TOOL_FixedSuffixes(z3Version) ==
  [ linux |-> Tool("https://github.com/Z3Prover/z3/releases/download/z3-" \o z3Version
                     \o "/z3-" \o z3Version \o "-x64-glibc-2.35.zip",
                   "zip",
                   "z3-" \o z3Version \o "-x64-glibc-2.35/bin/"),
    windows |-> Tool("https://github.com/Z3Prover/z3/releases/download/z3-" \o z3Version
                       \o "/z3-" \o z3Version \o "-x64-win.zip",
                     "zip",
                     "z3-" \o z3Version \o "-x64-win/bin/"),
    macos |-> Tool("https://github.com/Z3Prover/z3/releases/download/z3-" \o z3Version
                     \o "/z3-" \o z3Version \o "-x64-osx-13.7.2.zip",
                   "zip",
                   "z3-" \o z3Version \o "-osx/bin/") ]

Z3_TOOL(z3Version) ==
  [ linux |-> Tool("https://github.com/Z3Prover/z3/releases/download/z3-" \o z3Version
                     \o "/z3-" \o z3Version \o "-x64-glibc-"
                     \o findZ3LinuxGLIBC(z3Version) \o ".zip",
                   "zip",
                   "z3-" \o z3Version \o "-x64-glibc-" \o findZ3LinuxGLIBC(z3Version)
                     \o "/bin/"),
    windows |-> Tool("https://github.com/Z3Prover/z3/releases/download/z3-" \o z3Version
                       \o "/z3-" \o z3Version \o "-x64-win.zip",
                     "zip",
                     "z3-" \o z3Version \o "-x64-win/bin/"),
    macos |-> Tool("https://github.com/Z3Prover/z3/releases/download/z3-" \o z3Version
                     \o "/z3-" \o z3Version \o "-x64-osx-"
                     \o findZ3MacOSSuffix(z3Version) \o ".zip",
                   "zip",
                   "z3-" \o z3Version \o "-x64-osx-" \o findZ3MacOSSuffix(z3Version)
                     \o "/bin/") ]

CVC4_TOOL(cvc4Version) ==
  [ linux |-> Tool("https://github.com/CVC4/CVC4/releases/download/" \o cvc4Version
                     \o "/cvc4-" \o cvc4Version \o "-x86_64-linux-opt",
                   "file", ""),
    windows |-> Tool("https://github.com/CVC4/CVC4/releases/download/" \o cvc4Version
                       \o "/cvc4-" \o cvc4Version \o "-win64-opt.exe",
                     "file", ""),
    macos |-> Undefined ]

PrincessTool(princessVersion) ==
  Tool("https://github.com/uuverifiers/princess/releases/download/snapshot-"
         \o princessVersion \o "/princess-bin-" \o princessVersion \o ".zip",
       "zip",
       "princess-bin-" \o princessVersion \o "/bin/")

PRINCESS_TOOL(princessVersion) ==
  [ linux |-> PrincessTool(princessVersion),
    windows |-> PrincessTool(princessVersion),
    macos |-> PrincessTool(princessVersion) ]

\* The names of the tools, as passed to download().
ToolNames == {"cvc5", "z3", "cvc4", "princess"}

\* The order with Z3 first.
RunOrder_Z3First == <<"z3", "cvc5", "cvc4", "princess">>

\* run(): the order of the download() calls.
RunOrder == <<"cvc5", "z3", "cvc4", "princess">>

\* run(): the version passed to download() for a tool.
VersionOf(tool, in) ==
  CASE tool = "cvc5" -> in.cvc5Version
    [] tool = "z3" -> in.z3Version
    [] tool = "cvc4" -> in.cvc4Version
    [] tool = "princess" -> in.princessVersion

\* run(): the descriptor table passed to download() for a tool.
UrlsOf(tool, in) ==
  CASE tool = "cvc5" -> CVC5_TOOL(in.cvc5Version)
    [] tool = "z3" -> Z3_TOOL(in.z3Version)
    [] tool = "cvc4" -> CVC4_TOOL(in.cvc4Version)
    [] tool = "princess" -> PRINCESS_TOOL(in.princessVersion)

\* A lookup that falls back to the linux descriptor.
Lookup_DefaultLinux(urls, p) ==
  IF p \in DOMAIN urls /\ urls[p] # Undefined THEN urls[p] ELSE urls["linux"]

\* urls[platform]: undefined for a key the table does not have.
Lookup(urls, p) == IF p \in DOMAIN urls THEN urls[p] ELSE Undefined

\* Version inputs tried; "" is what core.getInput returns for an input not given.
Z3Versions == {"", "false", "4.13.4", "4.13.3", "4.13.2", "4.13.0", "4.14.1", "4.14.0",
               "4.15.0", "4.15.1", "5.0.0"}
Cvc5Versions == {"", "false", "1.2.1"}
Cvc4Versions == {"", "1.8"}
PrincessVersions == {"", "2024-11-08"}

Inputs ==
  [z3Version : Z3Versions, cvc5Version : Cvc5Versions,
   cvc4Version : Cvc4Versions, princessVersion : PrincessVersions]

-----------------------------------------------------------------------------
(* The tool cache and the search path (@actions/tool-cache, @actions/core) *)

\* The key under which tc.find looks up and tc.cacheDir stores.
Key(tool, version, arch) == [tool |-> tool, version |-> version, arch |-> arch]

\* The directory of a cache entry.
CachePath(key) ==
  "/opt/hostedtoolcache/" \o key.tool \o "/" \o key.version \o "/" \o key.arch

\* A lookup under the machine architecture instead of the arch given.
Find_MachineArch(c, tool, version, arch) ==
  IF Key(tool, version, "x64") \in c THEN CachePath(Key(tool, version, "x64")) ELSE ""

\* tc.find(tool, version, arch): the entry's directory, or '' when there is none.
Find(c, tool, version, arch) ==
  IF Key(tool, version, arch) \in c THEN CachePath(Key(tool, version, arch)) ELSE ""

\* tc.downloadTool(url): the temporary file the download is written to.
DownloadDest(url) == "/home/runner/work/_temp/" \o url

\* tc.extract*(file): the temporary directory the archive is extracted to.
ExtractDest(file) == file \o ".extracted"

\* download(): the extraction call chosen by the switch on info.format.
ExtractCall(format) ==
  CASE format = "tar" -> "extractTar"
    [] format = "7z" -> "extract7z"
    [] format = "xar" -> "extractXar"
    [] OTHER -> "extractZip"

\* `${toolPath}/${info.binPath}`
BinDir(tp, inf) == tp \o "/" \o inf.binPath

\* A collaborator call, as recorded in `calls`.
Call(op, tool, arg, ok) == [op |-> op, tool |-> tool, arg |-> arg, ok |-> ok]

\* The calls of one tool among a sequence of calls.
CallsOf(cs, tool) == SelectSeq(cs, LAMBDA c : c.tool = tool)

\* The operations of a sequence of calls.
Ops(cs) == [k \in 1..Len(cs) |-> cs[k].op]

-----------------------------------------------------------------------------
(* The program *)

\* The tool, version and descriptor table of the download() call in progress.
tool == RunOrder[i]
version == VersionOf(tool, inputs)
urls == UrlsOf(tool, inputs)

\* Module load: platform is computed from the environment; run() has not been called.
\* The tool cache is empty (a fresh runner) or holds entries of earlier jobs.
Init ==
  /\ RUNNER_OS \in RunnerOsValues
  /\ platform = PlatformOf(RUNNER_OS)
  /\ inputs \in Inputs
  /\ cache \in SUBSET {Key(t, VersionOf(t, inputs), platform) : t \in {"cvc5", "cvc4"}}
  /\ PATH = <<>>
  /\ calls = <<>>
  /\ installs = [t \in ToolNames |-> <<>>]
  /\ runs = 0
  /\ pc = "idle"
  /\ i = 1
  /\ info = Undefined
  /\ toolPath = ""
  /\ downloadPath = ""
  /\ extractedPath = ""

\* download() returns: run() goes on to its next download() call, or is done.
Return ==
  /\ IF i = Len(RunOrder)
     THEN pc' = "done" /\ i' = i
     ELSE pc' = "call" /\ i' = i + 1
  /\ info' = Undefined
  /\ downloadPath' = ""
  /\ extractedPath' = ""

\* A failure that run() catches and ignores: it goes on to the next download() call.
Throw_Caught == Return

\* download() throws: nothing in run() catches, so run() rejects.
Throw ==
  /\ pc' = "failed"
  /\ UNCHANGED <<i, info, downloadPath, extractedPath>>

\* A job starts: a new process on the same runner calls run(). The tool cache is
\* what the earlier jobs left; the process's own state is fresh.
Run ==
  /\ pc \in {"idle", "done", "failed"}
  /\ runs < MaxRuns
  /\ runs' = runs + 1
  /\ pc' = "call"
  /\ i' = 1
  /\ PATH' = <<>>
  /\ calls' = <<>>
  /\ info' = Undefined
  /\ toolPath' = ""
  /\ downloadPath' = ""
  /\ extractedPath' = ""
  /\ UNCHANGED <<RUNNER_OS, platform, inputs, cache, installs>>

\* download(): if (!version) return
DownloadNoVersion ==
  /\ pc = "call"
  /\ version = ""
  /\ Return
  /\ toolPath' = ""
  /\ UNCHANGED <<RUNNER_OS, platform, inputs, cache, PATH, calls, installs, runs>>

\* The descriptor looked up, and the return taken, before the cache is consulted.
DownloadNoInfo_BeforeFind ==
  /\ pc = "call"
  /\ version # ""
  /\ Lookup(urls, platform) = Undefined
  /\ Return
  /\ toolPath' = ""
  /\ UNCHANGED <<RUNNER_OS, platform, inputs, cache, PATH, calls, installs, runs>>

\* download(): toolPath = tc.find(...); info = urls[platform]; if (info === undefined) return
DownloadNoInfo ==
  /\ pc = "call"
  /\ version # ""
  /\ calls' = Append(calls, Call("find", tool, Key(tool, version, platform), TRUE))
  /\ Lookup(urls, platform) = Undefined
  /\ Return
  /\ toolPath' = ""
  /\ UNCHANGED <<RUNNER_OS, platform, inputs, cache, PATH, installs, runs>>

\* download(): tc.find hits, so the if (!toolPath) block is skipped.
DownloadCacheHit ==
  /\ pc = "call"
  /\ version # ""
  /\ calls' = Append(calls, Call("find", tool, Key(tool, version, platform), TRUE))
  /\ Lookup(urls, platform) # Undefined
  /\ Find(cache, tool, version, platform) # ""
  /\ toolPath' = Find(cache, tool, version, platform)
  /\ info' = Lookup(urls, platform)
  /\ pc' = "addPath"
  /\ UNCHANGED <<RUNNER_OS, platform, inputs, cache, PATH, installs, runs, i,
                 downloadPath, extractedPath>>

\* download(): tc.find misses, so the if (!toolPath) block is entered.
DownloadCacheMiss ==
  /\ pc = "call"
  /\ version # ""
  /\ calls' = Append(calls, Call("find", tool, Key(tool, version, platform), TRUE))
  /\ Lookup(urls, platform) # Undefined
  /\ Find(cache, tool, version, platform) = ""
  /\ toolPath' = ""
  /\ info' = Lookup(urls, platform)
  /\ pc' = "downloadTool"
  /\ UNCHANGED <<RUNNER_OS, platform, inputs, cache, PATH, installs, runs, i,
                 downloadPath, extractedPath>>

\* download(): downloadPath = await tc.downloadTool(info.url)
DownloadTool ==
  /\ pc = "downloadTool"
  /\ \/ /\ calls' = Append(calls, Call("downloadTool", tool, info.url, TRUE))
        /\ downloadPath' = DownloadDest(info.url)
        /\ pc' = "extract"
        /\ UNCHANGED <<i, info, extractedPath>>
     \/ /\ calls' = Append(calls, Call("downloadTool", tool, info.url, FALSE))
        /\ Throw
  /\ UNCHANGED <<RUNNER_OS, platform, inputs, cache, PATH, installs, runs, toolPath>>

\* download(): switch (info.format) { ... extractedPath = await tc.extract*(downloadPath) }
Extract ==
  /\ pc = "extract"
  /\ \/ /\ calls' = Append(calls, Call(ExtractCall(info.format), tool, downloadPath, TRUE))
        /\ extractedPath' = ExtractDest(downloadPath)
        /\ pc' = "cacheDir"
        /\ UNCHANGED <<i, info, downloadPath>>
     \/ /\ calls' = Append(calls, Call(ExtractCall(info.format), tool, downloadPath, FALSE))
        /\ Throw
  /\ UNCHANGED <<RUNNER_OS, platform, inputs, cache, PATH, installs, runs, toolPath>>

\* tc.cacheDir's result dropped: toolPath is the extracted directory.
CacheDir_ResultDropped ==
  /\ pc = "cacheDir"
  /\ \/ /\ calls' = Append(calls, Call("cacheDir", tool, extractedPath, TRUE))
        /\ cache' = cache \cup {Key(tool, version, platform)}
        /\ toolPath' = extractedPath
        /\ pc' = "addPath"
        /\ UNCHANGED <<i, info, downloadPath, extractedPath>>
     \/ /\ calls' = Append(calls, Call("cacheDir", tool, extractedPath, FALSE))
        /\ Throw
        /\ UNCHANGED <<cache, toolPath>>
  /\ UNCHANGED <<RUNNER_OS, platform, inputs, PATH, installs, runs>>

\* download(): toolPath = await tc.cacheDir(extractedPath, tool, version, platform)
CacheDir ==
  /\ pc = "cacheDir"
  /\ \/ /\ calls' = Append(calls, Call("cacheDir", tool, extractedPath, TRUE))
        /\ cache' = cache \cup {Key(tool, version, platform)}
        /\ toolPath' = CachePath(Key(tool, version, platform))
        /\ pc' = "addPath"
        /\ UNCHANGED <<i, info, downloadPath, extractedPath>>
     \/ /\ calls' = Append(calls, Call("cacheDir", tool, extractedPath, FALSE))
        /\ Throw
        /\ UNCHANGED <<cache, toolPath>>
  /\ UNCHANGED <<RUNNER_OS, platform, inputs, PATH, installs, runs>>

\* download(): core.addPath(`${toolPath}/${info.binPath}`), then download() returns.
AddPath ==
  /\ pc = "addPath"
  /\ PATH' = Append(PATH, BinDir(toolPath, info))
  /\ calls' = Append(calls, Call("addPath", tool, BinDir(toolPath, info), TRUE))
  /\ installs' = [installs EXCEPT ![tool] =
                    Append(@, [run |-> runs, ops |-> Ops(CallsOf(calls', tool)),
                               path |-> BinDir(toolPath, info)])]
  /\ Return
  /\ toolPath' = ""
  /\ UNCHANGED <<RUNNER_OS, platform, inputs, cache, runs>>

Next ==
  \/ Run
  \/ DownloadNoVersion
  \/ DownloadNoInfo
  \/ DownloadCacheHit
  \/ DownloadCacheMiss
  \/ DownloadTool
  \/ Extract
  \/ CacheDir
  \/ AddPath

Spec == Init /\ [][Next]_vars

-----------------------------------------------------------------------------
(* Vocabulary of the properties *)

\* The position of a tool in the order of run()'s download() calls.
Pos(t) == CHOOSE k \in 1..Len(RunOrder) : RunOrder[k] = t

\* The download() call of tool t of the current process has returned.
Returned(t) == runs >= 1 /\ (pc = "done" \/ (pc # "idle" /\ Pos(t) < i))

\* The operations of the current process's calls for tool t.
OpsOf(t) == Ops(CallsOf(calls, t))

\* The set of operations among a sequence of operations.
OpSet(ops) == {ops[k] : k \in 1..Len(ops)}

\* The descriptor table of tool t has no entry for the current platform.
NoDescriptor(t) ==
  LET u == UrlsOf(t, inputs)
  IN  platform \notin DOMAIN u \/ u[platform] = Undefined

ExtractOps == {"extractTar", "extract7z", "extractXar", "extractZip"}
MissOps == {"downloadTool", "cacheDir"} \cup ExtractOps

\* The arguments of the addPath calls among a sequence of calls.
AddedPaths(cs) ==
  LET adds == SelectSeq(cs, LAMBDA c : c.op = "addPath")
  IN  [k \in 1..Len(adds) |-> adds[k].arg]

\* The descriptor of download()'s call in progress is the local `info` of tool t.
InfoOf(t) ==
  /\ pc \in {"downloadTool", "extract", "cacheDir", "addPath"}
  /\ tool = t

-----------------------------------------------------------------------------
(* C1 *)

\* C1 (as claimed): a tool whose version is the empty string or the literal "false"
\* causes no cache query, no download and no search-path addition.
C1_DisabledVersionNoCalls ==
  \A t \in ToolNames :
    VersionOf(t, inputs) \in {"", "false"} =>
      /\ OpSet(OpsOf(t)) \cap {"find", "downloadTool", "addPath"} = {}
      /\ installs[t] = <<>>

-----------------------------------------------------------------------------
(* C2 *)

\* C2: once a download() call of a tool has reached core.addPath, every later
\* download() call of that tool (same inputs, same tool cache) hits the cache: it
\* performs tc.find and core.addPath only, and adds the same directory. So the
\* calls of a tool that reached core.addPath hold at most one
\* download/extract/store sequence, in the first of them.
C2_Idempotent ==
  \A t \in ToolNames :
    /\ \A k \in 1..Len(installs[t]) :
         /\ k >= 2 => /\ installs[t][k].ops = <<"find", "addPath">>
                      /\ installs[t][k].path = installs[t][1].path
         /\ installs[t][k].ops = <<"find", "addPath">>
            \/ \E x \in ExtractOps :
                 installs[t][k].ops = <<"find", "downloadTool", x, "cacheDir", "addPath">>
         /\ installs[t][k].run < runs => OpSet(OpsOf(t)) \cap MissOps = {}

\* Two jobs have installed a tool, the first one by download, extraction and store.
C2_Witness ==
  \E t \in ToolNames :
    /\ Len(installs[t]) = 2
    /\ installs[t][1].ops = <<"find", "downloadTool", "extractZip", "cacheDir", "addPath">>
    /\ installs[t][2].ops = <<"find", "addPath">>
    /\ installs[t][1].run = 1
    /\ installs[t][2].run = 2

-----------------------------------------------------------------------------
(* C3 *)

\* The inputs and platform of the end-to-end scenario.
C3_Scenario ==
  /\ inputs = [z3Version |-> "4.14.0", cvc5Version |-> "1.2.1",
               cvc4Version |-> "", princessVersion |-> ""]
  /\ platform = "linux"

\* C3: with z3Version=4.14.0, cvc5Version=1.2.1, no cvc4Version/princessVersion, on
\* linux, a run in which every call succeeds has added exactly two directories, the
\* CVC5 one before the Z3 one, each the tool's cache directory joined with its bin/
\* subpath, and has made no call at all for CVC4 or Princess.
C3_EndToEnd ==
  (C3_Scenario /\ pc = "done") =>
    /\ PATH = << "/opt/hostedtoolcache/cvc5/1.2.1/linux/cvc5-Linux-x86_64-static/bin/",
                 "/opt/hostedtoolcache/z3/4.14.0/linux/z3-4.14.0-x64-glibc-2.35/bin/" >>
    /\ PATH = << Find(cache, "cvc5", "1.2.1", "linux") \o "/cvc5-Linux-x86_64-static/bin/",
                 Find(cache, "z3", "4.14.0", "linux") \o "/z3-4.14.0-x64-glibc-2.35/bin/" >>
    /\ AddedPaths(calls) = PATH
    /\ OpsOf("cvc4") = <<>>
    /\ OpsOf("princess") = <<>>

\* The scenario has run to its end on a runner whose cache held neither tool.
C3_Witness ==
  /\ C3_Scenario
  /\ pc = "done"
  /\ runs = 1
  /\ "downloadTool" \in OpSet(OpsOf("cvc5"))
  /\ "downloadTool" \in OpSet(OpsOf("z3"))

-----------------------------------------------------------------------------
(* C4 *)

\* C4: a tool whose descriptor table has no entry for the current platform causes no
\* download and no search-path addition, whatever the cache holds.
C4_NoDescriptorNoInstall ==
  \A t \in ToolNames :
    NoDescriptor(t) =>
      /\ OpSet(OpsOf(t)) \cap ({"addPath"} \cup MissOps) = {}
      /\ installs[t] = <<>>
      /\ PATH = AddedPaths(SelectSeq(calls, LAMBDA c : c.tool # t))

\* download("cvc4", "1.8", CVC4_TOOL) has returned on macos, the cache holding an
\* entry under cvc4's key.
C4_Witness ==
  /\ platform = "macos"
  /\ inputs.cvc4Version = "1.8"
  /\ Key("cvc4", "1.8", "macos") \in cache
  /\ Returned("cvc4")
  /\ OpsOf("cvc4") = <<"find">>

-----------------------------------------------------------------------------
(* C5 *)

\* What holds of a process in which a collaborator call has failed.
C5_FailedState ==
  (\E k \in 1..Len(calls) : ~calls[k].ok) =>
    /\ pc = "failed"
    /\ \A k \in 1..Len(calls) : ~calls[k].ok => k = Len(calls)
    /\ calls[Len(calls)].op \in MissOps
    /\ calls[Len(calls)].tool = tool
    /\ "addPath" \notin OpSet(OpsOf(tool))
    /\ \A t \in ToolNames : Pos(t) > i => OpsOf(t) = <<>>
    /\ PATH = AddedPaths(calls)
    /\ \A k \in 1..Len(calls) : calls[k].op = "addPath" => Pos(calls[k].tool) < i

\* C5: when tc.downloadTool, tc.extract* or tc.cacheDir fails, the run fails; no
\* directory is added for the failing tool; nothing is called for the tools later in
\* the order, then or afterwards (the failed process takes no further step: the only
\* step left is the start of another job); the directories added before stay added.
C5_FailFast ==
  [][ /\ C5_FailedState'
      /\ (pc' = "failed" /\ pc # "failed") => (PATH' = PATH /\ ~calls'[Len(calls')].ok)
      /\ pc = "failed" => runs' = runs + 1 ]_vars

\* The second tool's extraction has failed after the first tool was installed.
C5_Witness ==
  /\ pc = "failed"
  /\ i = 2
  /\ Len(PATH) = 1
  /\ calls[Len(calls)].op = "extractZip"
  /\ ~calls[Len(calls)].ok
  /\ inputs.cvc4Version # ""

-----------------------------------------------------------------------------
(* C6 *)

\* RUNNER_OS is set, non-empty, and is not Linux, Windows or macOS in any casing.
C6_Unrecognized ==
  /\ RUNNER_OS # Undefined
  /\ RUNNER_OS.chars # <<>>
  /\ ToLowerCase(RUNNER_OS.chars) \notin
       { <<"l","i","n","u","x">>, <<"w","i","n","d","o","w","s">>, <<"m","a","c","o","s">> }

\* C6 (as claimed): platform is one of linux, windows, macos, and it is linux when
\* RUNNER_OS is unset, empty or unrecognized.
C6_PlatformIsOneOfThree ==
  /\ platform \in Platform
  /\ (RUNNER_OS = Undefined \/ RUNNER_OS = Str(<<>>) \/ C6_Unrecognized) => platform = "linux"

-----------------------------------------------------------------------------
(* C7 *)

\* The Z3 versions that both suffix tables list.
C7_ListedVersions == {"4.13.4", "4.13.3", "4.13.2", "4.13.0", "4.14.1", "4.14.0"}

\* The release assets' suffixes of the listed versions: glibc for Linux, osx for macOS.
C7_Glibc(v) == "2.35"
C7_Osx(v) ==
  CASE v = "4.13.4" -> "13.7.1" [] v = "4.13.3" -> "13.7" [] v = "4.13.2" -> "12.7.6"
    [] v = "4.13.0" -> "11.7.10" [] v = "4.14.1" -> "13.7.4" [] v = "4.14.0" -> "13.7.2"

\* The name of the Z3 release asset, without .zip, for a listed version on a platform.
C7_Asset(v, p) ==
  CASE p = "linux" -> "z3-" \o v \o "-x64-glibc-" \o C7_Glibc(v)
    [] p = "windows" -> "z3-" \o v \o "-x64-win"
    [] p = "macos" -> "z3-" \o v \o "-x64-osx-" \o C7_Osx(v)

\* C7 (as claimed): Z3 4.14.0 on macos has the URL ending in -x64-osx-13.7.2.zip and
\* the binary subpath z3-4.14.0-x64-osx/bin/.
C7_MacosSubpathAsClaimed ==
  (InfoOf("z3") /\ inputs.z3Version = "4.14.0" /\ platform = "macos") =>
    /\ info.url = "https://github.com/Z3Prover/z3/releases/download/z3-4.14.0/z3-4.14.0-x64-osx-13.7.2.zip"
    /\ info.binPath = "z3-4.14.0-x64-osx/bin/"

\* C7 (amended): for a Z3 version in both suffix tables the descriptor of each platform
\* has the URL of the release asset and, as binary subpath, the asset's name followed
\* by /bin/; for 4.14.0 on macos the URL ends in -x64-osx-13.7.2.zip and the binary
\* subpath is z3-4.14.0-x64-osx-13.7.2/bin/.
C7_Z3Descriptor ==
  (InfoOf("z3") /\ inputs.z3Version \in C7_ListedVersions /\ platform \in Platform) =>
    /\ info.url = "https://github.com/Z3Prover/z3/releases/download/z3-" \o inputs.z3Version
                    \o "/" \o C7_Asset(inputs.z3Version, platform) \o ".zip"
    /\ info.binPath = C7_Asset(inputs.z3Version, platform) \o "/bin/"
    /\ info.format = "zip"
    /\ (inputs.z3Version = "4.14.0" /\ platform = "macos") =>
         /\ info.url = "https://github.com/Z3Prover/z3/releases/download/z3-4.14.0/z3-4.14.0-x64-osx-13.7.2.zip"
         /\ info.binPath = "z3-4.14.0-x64-osx-13.7.2/bin/"

\* download("z3", "4.14.0", Z3_TOOL) has selected its descriptor on macos.
C7_Witness ==
  /\ InfoOf("z3")
  /\ inputs.z3Version = "4.14.0"
  /\ platform = "macos"
  /\ pc = "addPath"

-----------------------------------------------------------------------------
(* C8 *)

\* The versions for which findZ3LinuxGLIBC and findZ3MacOSSuffix return a listed value.
C8_LinuxKeys == {"4.13.4", "4.13.3", "4.13.2", "4.13.0", "4.14.1", "4.14.0"}
C8_MacosKeys == C8_LinuxKeys \cup {"4.15.0"}

\* C8: for a Z3 version that the lookup table does not list, the Linux lookup returns
\* 2.39 and the macOS lookup returns 13.7.6, and the Linux and macOS download URLs
\* carry these suffixes.
C8_UnlistedVersionDefaults ==
  InfoOf("z3") =>
    /\ (inputs.z3Version \notin C8_LinuxKeys) =>
         /\ findZ3LinuxGLIBC(inputs.z3Version) = "2.39"
         /\ platform = "linux" =>
              info.url = "https://github.com/Z3Prover/z3/releases/download/z3-"
                           \o inputs.z3Version \o "/z3-" \o inputs.z3Version
                           \o "-x64-glibc-2.39.zip"
    /\ (inputs.z3Version \notin C8_MacosKeys) =>
         /\ findZ3MacOSSuffix(inputs.z3Version) = "13.7.6"
         /\ platform = "macos" =>
              info.url = "https://github.com/Z3Prover/z3/releases/download/z3-"
                           \o inputs.z3Version \o "/z3-" \o inputs.z3Version
                           \o "-x64-osx-13.7.6.zip"

\* download("z3", "5.0.0", Z3_TOOL) has downloaded from its URL, on linux or on macos.
C8_Witness ==
  /\ InfoOf("z3")
  /\ inputs.z3Version = "5.0.0"
  /\ platform \in {"linux", "macos"}
  /\ pc = "extract"
  /\ calls[Len(calls)].arg = info.url

-----------------------------------------------------------------------------
(* C9 *)

\* The archive format that an extraction call decodes.
C9_FormatOf(op) ==
  CASE op = "extractTar" -> "tar" [] op = "extract7z" -> "7z"
    [] op = "extractXar" -> "xar" [] op = "extractZip" -> "zip"

\* C9 (as claimed): an extraction call is made only for a descriptor whose format is
\* that archive's tag; for a descriptor of format "file" there is none.
C9_ExtractionOnlyForItsFormat ==
  \A k \in 1..Len(calls) :
    calls[k].op \in ExtractOps =>
      UrlsOf(calls[k].tool, inputs)[platform].format = C9_FormatOf(calls[k].op)

-----------------------------------------------------------------------------
(* C10 *)

\* C10 (as claimed): tc.find is called only for a tool that has a descriptor on the
\* current platform (stated for a platform that is one of linux, windows, macos).
C10_FindOnlyWithDescriptor ==
  platform \in Platform =>
    \A k \in 1..Len(calls) : calls[k].op = "find" => ~NoDescriptor(calls[k].tool)

\* C10 (amended): within one download() call the cache is consulted before the
\* descriptor of the current platform is selected: every call whose version is not
\* empty starts with one tc.find for (tool, version, platform), also when the
\* descriptor is absent; with the descriptor absent the call returns right after it, so
\* a download, extraction, cache store or path addition happens only for a tool that
\* has a descriptor on the current platform.
C10_FindThenDescriptor ==
  \A t \in ToolNames :
    /\ (Returned(t) /\ VersionOf(t, inputs) # "") =>
         /\ OpsOf(t) # <<>>
         /\ CallsOf(calls, t)[1] =
              Call("find", t, Key(t, VersionOf(t, inputs), platform), TRUE)
    /\ \A k \in 2..Len(OpsOf(t)) : OpsOf(t)[k] # "find"
    /\ (Returned(t) /\ VersionOf(t, inputs) # ""
          /\ NoDescriptor(t)) => OpsOf(t) = <<"find">>
    /\ OpSet(OpsOf(t)) \cap ({"addPath"} \cup MissOps) # {} => ~NoDescriptor(t)

\* A download() call for a tool without a descriptor on the platform has returned.
C10_Witness ==
  \E t \in ToolNames :
    /\ Returned(t)
    /\ VersionOf(t, inputs) # ""
    /\ NoDescriptor(t)
    /\ OpsOf(t) = <<"find">>
    /\ platform \in Platform

-----------------------------------------------------------------------------
(* C11 *)

\* The addPath calls among the current process's calls.
C11_Adds == SelectSeq(calls, LAMBDA c : c.op = "addPath")

\* The directories a tool's download is written and extracted to, joined with the
\* binary subpath of the tool's descriptor d.
C11_TemporaryDirs(d) ==
  { BinDir(DownloadDest(d.url), d), BinDir(ExtractDest(DownloadDest(d.url)), d) }

\* Every search-path entry is the cache entry of its tool's (tool, version, platform)
\* key, which the cache holds, joined with the descriptor's binary subpath, and is no
\* directory of the downloaded or extracted tree.
C11_EntriesFromCache ==
  /\ Len(PATH) = Len(C11_Adds)
  /\ \A k \in 1..Len(PATH) :
       LET t == C11_Adds[k].tool
           key == Key(t, VersionOf(t, inputs), platform)
           d == UrlsOf(t, inputs)[platform]
       IN  /\ ~NoDescriptor(t)
           /\ key \in cache
           /\ PATH[k] = Find(cache, t, VersionOf(t, inputs), platform) \o "/" \o d.binPath
           /\ PATH[k] = "/opt/hostedtoolcache/" \o t \o "/" \o VersionOf(t, inputs)
                          \o "/" \o platform \o "/" \o d.binPath
           /\ PATH[k] \notin C11_TemporaryDirs(d)

\* C11: in every reachable state each search-path entry is its tool's cache entry's
\* path joined with the descriptor's binary subpath; an entry is appended only in a
\* state in which the cache already holds the tool's (tool, version, platform) key;
\* no directory of a downloaded or extracted tree is ever put on the search path.
C11_PathFromCache ==
  [][ /\ C11_EntriesFromCache'
      /\ PATH' # PATH =>
           \/ PATH' = <<>> /\ runs' = runs + 1
           \/ /\ Key(tool, version, platform) \in cache
              /\ PATH' = Append(PATH, CachePath(Key(tool, version, platform)) \o "/"
                                        \o UrlsOf(tool, inputs)[platform].binPath) ]_vars

\* Two directories are on the search path: one after a cache hit, one after a
\* download, extraction and store in this process.
C11_Witness ==
  /\ Len(PATH) = 2
  /\ \E t \in ToolNames : OpsOf(t) = <<"find", "addPath">>
  /\ \E t \in ToolNames :
       OpsOf(t) = <<"find", "downloadTool", "extractZip", "cacheDir", "addPath">>

====
